---- MODULE Spec2Model ----
(***************************************************************************)
(* Time-lock puzzle engine of timelock.py: puzzle builder (makepuzzle),    *)
(* sequential squaring solver with checkpoints (solve_puzzle, save_puzzle, *)
(* _decode_file), speed calibration (calibrate_speed, update_speed) and    *)
(* the eta formatter.                                                      *)
(***************************************************************************)
EXTENDS Integers, Sequences, FiniteSets, TLC

(* ---------------- bounds of the model ---------------- *)
\* bit length of each prime drawn by getPrime (MOD_BITS/2 in the source)
PrimeBits == 4
\* the base a of a puzzle is drawn from 0..MaxBase and N-1
MaxBase == 2
\* step counts of the puzzles handed to the solver
MaxSteps == 4
\* cipher_key / secret key values are drawn from 0..MaxKey
MaxKey == 1
\* SAVE_INTERVAL values a calibration may yield
MaxInterval == 3

(* ---------------- program constants ---------------- *)
SECOND == 1
MINUTE == 60
HOUR == MINUTE * 60
DAY == HOUR * 24
MONTH == DAY * 31
YEAR == DAY * 365
ProgressEvery == 12345

(* ---------------- state ---------------- *)
VARIABLES
  pc,             \* position of the process
  file,           \* content of <ciphertext>.timelock on disk
  puzzle,         \* the dict p handed to solve_puzzle
  tmp, i, t,      \* locals of solve_puzzle
  SAVE_INTERVAL,  \* module global
  p2,             \* the checkpoint dict being saved
  key,            \* key derived at the end of solve_puzzle
  puzzle0,        \* history: the record the builder saved first
  loaded,         \* history: the record as _decode_file parsed it
  lastSaved,      \* history: record of the last completed save_puzzle
  prevCk,         \* history: steps of the previous checkpoint of this run
  trapdoor,       \* makepuzzle: p, q, totient and the secret key
  SPEED,          \* module global
  elapsed,        \* calibrate_speed: time.time() - start, in clock ticks
  etaIn, etaOut   \* arguments and results of two eta calls

vars == <<pc, file, puzzle, tmp, i, t, SAVE_INTERVAL, p2, key,
          puzzle0, loaded, lastSaved, prevCk,
          trapdoor, SPEED, elapsed, etaIn, etaOut>>

\* the state of the components other than the solver
aux == <<trapdoor, SPEED, elapsed, etaIn, etaOut>>
\* the state of the solver and of its checkpoint file
solver == <<file, tmp, i, t, p2, puzzle0, loaded, lastSaved, prevCk>>

NoPuzzle == [N |-> 0, a |-> 0, steps |-> 0, cipher_key |-> 0]
NoTrapdoor == [p |-> 0, q |-> 0, totient |-> 0, key |-> 0]
NoEta == [n |-> 0, unit |-> "none"]

(* ---------------- number theory helpers ---------------- *)
RECURSIVE Pow2(_)
Pow2(n) == IF n = 0 THEN 1 ELSE 2 * Pow2(n - 1)

IsPrime(n) == n > 1 /\ \A d \in 2..(n - 1) : n % d # 0

\* number.getPrime(bits): a prime of exactly that many bits
getPrime(bits) == {n \in Pow2(bits - 1)..(Pow2(bits) - 1) : IsPrime(n)}

\* pow(b, e, m) by square-and-multiply
RECURSIVE pow(_, _, _)
pow(b, e, m) ==
  IF e = 0 THEN 1 % m
  ELSE IF e % 2 = 0 THEN pow((b * b) % m, e \div 2, m)
  ELSE (b * pow((b * b) % m, e \div 2, m)) % m

\* a squared modulo N, t times, by direct iteration
RECURSIVE RepeatedSquare(_, _, _)
RepeatedSquare(a, n, N) ==
  IF n = 0 THEN a ELSE RepeatedSquare((a * a) % N, n - 1, N)

(* ---------------- serialisation: str(p) and eval ---------------- *)
RECURSIVE ToDigits(_)
ToDigits(n) == IF n < 10 THEN <<n>> ELSE Append(ToDigits(n \div 10), n % 10)

RECURSIVE FromDigits(_)
FromDigits(s) ==
  IF Len(s) = 0 THEN 0
  ELSE FromDigits(SubSeq(s, 1, Len(s) - 1)) * 10 + s[Len(s)]

\* str(p): the fields of the dict, each as its decimal digits
StrPuzzle(p) ==
  <<ToDigits(p.N), ToDigits(p.a), ToDigits(p.steps), ToDigits(p.cipher_key)>>

\* a file is three comment lines followed by the dict text
EmptyFile == [hdr |-> 0, state |-> <<>>]
FullFile(p) == [hdr |-> 3, state |-> StrPuzzle(p)]

\* eval(open(file).read()) succeeds only when the dict text is complete
Parses(f) == Len(f.state) = 4
EvalFile(f) ==
  [N |-> FromDigits(f.state[1]), a |-> FromDigits(f.state[2]),
   steps |-> FromDigits(f.state[3]), cipher_key |-> FromDigits(f.state[4])]

\* what can be on disk when a writer with content f dies before close
Prefixes(f) ==
  {g \in {[hdr |-> h, state |-> SubSeq(f.state, 1, k)] :
             h \in 0..f.hdr, k \in 0..Len(f.state)} :
     Len(g.state) > 0 => g.hdr = 3}

(* ---------------- the solver ---------------- *)
Moduli == {p * q : p \in getPrime(PrimeBits), q \in getPrime(PrimeBits)}
Bases(N) == (0..MaxBase) \cup {N - 1}

ValidPuzzles ==
  UNION {{[N |-> N, a |-> a, steps |-> s, cipher_key |-> c] :
            a \in Bases(N), s \in 0..MaxSteps, c \in 0..MaxKey} : N \in Moduli}

Init ==
  /\ puzzle0 \in ValidPuzzles
  /\ file = FullFile(puzzle0)
  /\ lastSaved = puzzle0
  /\ pc = "idle"
  /\ puzzle = NoPuzzle /\ loaded = NoPuzzle /\ p2 = NoPuzzle
  /\ tmp = 0 /\ i = 0 /\ t = 0
  /\ SAVE_INTERVAL = -1
  /\ key = -1
  /\ prevCk = -1
  /\ trapdoor = NoTrapdoor
  /\ SPEED = -1
  /\ elapsed = 0
  /\ etaIn = <<0, 0, <<1, 1>>>>
  /\ etaOut = <<NoEta, NoEta>>

\* the process is gone: its locals and globals are back to their initial values
ProcessExit ==
  /\ puzzle' = NoPuzzle /\ p2' = NoPuzzle /\ loaded' = NoPuzzle
  /\ tmp' = 0 /\ i' = 0 /\ t' = 0
  /\ SAVE_INTERVAL' = -1
  /\ key' = -1
  /\ prevCk' = -1

Stopped == pc \in {"idle", "crashed", "io_error", "zero_div"}
Running == pc \in {"loop", "open", "write", "close", "square"}

\* update_speed, as the solver sees it. The loop reads the calibration only
\* through (i+1) % SAVE_INTERVAL, and SAVE_INTERVAL = SPEED * 10 * MINUTE is
\* positive whenever the calibration returned SPEED >= 1; every positive
\* interval up to MaxInterval stands for it here. The outcomes SPEED = 0 and
\* the division by a zero elapsed time are the subject of SpecCal.
UpdateSpeed == SAVE_INTERVAL' \in 1..MaxInterval

\* _decode_file: parse failure
DecodeFileError ==
  /\ Stopped
  /\ ~Parses(file)
  /\ pc' = "parse_error"
  /\ UNCHANGED <<file, puzzle, tmp, i, t, SAVE_INTERVAL, p2, key,
                 puzzle0, loaded, lastSaved, prevCk>>
  /\ UNCHANGED aux

\* _decode_file followed by the prologue of solve_puzzle
DecodeFile ==
  /\ Stopped
  /\ Parses(file)
  /\ puzzle' = EvalFile(file)
  /\ loaded' = EvalFile(file)
  /\ UpdateSpeed
  /\ tmp' = EvalFile(file).a
  /\ t' = EvalFile(file).steps
  /\ i' = 0
  /\ p2' = NoPuzzle
  /\ prevCk' = -1
  /\ key' = -1
  /\ pc' = "loop"
  /\ UNCHANGED <<file, puzzle0, lastSaved>>
  /\ UNCHANGED aux

\* the remaining count taken as if the step at hand were already done
CheckpointStepsAfter(tt, ii) == tt - (ii + 1)

\* p2 = p.copy(); p2['steps'] = t-i; p2['a'] = tmp
CheckpointSteps(tt, ii) == tt - ii
Checkpoint(p, tt, ii, v) ==
  [p EXCEPT !.steps = CheckpointSteps(tt, ii), !.a = v]

\* p2 = p without the copy: the assignments to p2 land in p
PuzzleAliased(p, q) == q

\* the dict p after p2 has been built from a copy of it
PuzzleAfterCopy(p, q) == p

BeginCheckpoint ==
  /\ pc = "loop"
  /\ i < t
  /\ (i + 1) % SAVE_INTERVAL = 0
  /\ p2' = Checkpoint(puzzle, t, i, tmp)
  /\ puzzle' = PuzzleAfterCopy(puzzle, p2')
  /\ pc' = "open"
  /\ UNCHANGED <<file, tmp, i, t, SAVE_INTERVAL, key,
                 puzzle0, loaded, lastSaved, prevCk>>
  /\ UNCHANGED aux

\* save_puzzle: open(filename, 'w') truncates the file
SaveOpen ==
  /\ pc = "open"
  /\ file' = EmptyFile
  /\ pc' = "write"
  /\ UNCHANGED <<puzzle, tmp, i, t, SAVE_INTERVAL, p2, key,
                 puzzle0, loaded, lastSaved, prevCk>>
  /\ UNCHANGED aux

\* save_puzzle: open raises IOError, which nothing in solve_puzzle catches
SaveOpenFail ==
  /\ pc = "open"
  /\ pc' = "io_error"
  /\ ProcessExit
  /\ UNCHANGED <<file, puzzle0, lastSaved>>
  /\ UNCHANGED aux

\* save_puzzle: the four f.write calls, one per step
SaveWrite ==
  /\ pc = "write"
  /\ IF file.hdr < 3
       THEN /\ file' = [file EXCEPT !.hdr = @ + 1]
            /\ pc' = "write"
       ELSE /\ file' = [file EXCEPT !.state = StrPuzzle(p2)]
            /\ pc' = "close"
  /\ UNCHANGED <<puzzle, tmp, i, t, SAVE_INTERVAL, p2, key,
                 puzzle0, loaded, lastSaved, prevCk>>
  /\ UNCHANGED aux

\* save_puzzle: leaving the with block flushes and closes the file
SaveClose ==
  /\ pc = "close"
  /\ lastSaved' = p2
  /\ prevCk' = p2.steps
  /\ pc' = "square"
  /\ UNCHANGED <<file, puzzle, tmp, i, t, SAVE_INTERVAL, p2, key,
                 puzzle0, loaded>>
  /\ UNCHANGED aux

\* save_puzzle: the flush at close raises IOError (disk full)
SaveCloseFail ==
  /\ pc = "close"
  /\ file' \in Prefixes(file) \ {file}
  /\ pc' = "io_error"
  /\ ProcessExit
  /\ UNCHANGED <<puzzle0, lastSaved>>
  /\ UNCHANGED aux

\* a doubling in place of the squaring
SquareStepDouble(v, N) == (v * 2) % N

\* tmp = pow(tmp, 2, N)
SquareStep(v, N) == (v * v) % N

AtSquare ==
  \/ pc = "square"
  \/ pc = "loop" /\ i < t /\ (i + 1) % SAVE_INTERVAL # 0

\* the squaring, the progress report with a clock that advanced, i += 1
Square ==
  /\ AtSquare
  /\ tmp' = SquareStep(tmp, puzzle.N)
  /\ i' = i + 1
  /\ pc' = "loop"
  /\ UNCHANGED <<file, puzzle, t, SAVE_INTERVAL, p2, key,
                 puzzle0, loaded, lastSaved, prevCk>>
  /\ UNCHANGED aux

\* the progress report when time.time() - start is 0: i/0.0 raises
SquareClockZero ==
  /\ AtSquare
  /\ i % ProgressEvery = 1
  /\ pc' = "zero_div"
  /\ ProcessExit
  /\ UNCHANGED <<file, puzzle0, lastSaved>>
  /\ UNCHANGED aux

\* key = (p['cipher_key'] - tmp) % N
RecoverKey(c, v, N) == (c - v) % N

Finish ==
  /\ pc = "loop"
  /\ i >= t
  /\ key' = RecoverKey(puzzle.cipher_key, tmp, puzzle.N)
  /\ pc' = "done"
  /\ UNCHANGED <<file, puzzle, tmp, i, t, SAVE_INTERVAL, p2,
                 puzzle0, loaded, lastSaved, prevCk>>
  /\ UNCHANGED aux

\* the process is killed; an unfinished write leaves any prefix on disk
Interrupt ==
  /\ Running
  /\ pc' = "crashed"
  /\ IF pc \in {"write", "close"}
       THEN file' \in Prefixes(file)
       ELSE file' = file
  /\ ProcessExit
  /\ UNCHANGED <<puzzle0, lastSaved>>
  /\ UNCHANGED aux

ProcStep ==
  \/ BeginCheckpoint \/ SaveOpen \/ SaveOpenFail \/ SaveWrite
  \/ SaveClose \/ SaveCloseFail \/ Square \/ SquareClockZero \/ Finish

Next ==
  \/ DecodeFile \/ DecodeFileError
  \/ BeginCheckpoint \/ SaveOpen \/ SaveOpenFail \/ SaveWrite
  \/ SaveClose \/ SaveCloseFail \/ Square \/ SquareClockZero \/ Finish
  \/ Interrupt

Spec == Init /\ [][Next]_vars

FairSpec == Init /\ [][Next]_vars /\ WF_vars(ProcStep)

(* ---------------- corruption of the saved state ---------------- *)
\* how far a mutated field is moved out of its range
MaxCorrupt == 1

\* the last saved record is mutated out-of-band while no solver runs
Corrupt ==
  /\ Stopped
  /\ file = FullFile(lastSaved)
  /\ lastSaved.steps <= puzzle0.steps
  /\ lastSaved.a < puzzle0.N
  /\ \E d \in 1..MaxCorrupt :
       \E r \in {[EvalFile(file) EXCEPT !.steps = puzzle0.steps + d],
                 [EvalFile(file) EXCEPT !.a = puzzle0.N + d - 1]} :
         file' = FullFile(r)
  /\ UNCHANGED <<pc, puzzle, tmp, i, t, SAVE_INTERVAL, p2, key,
                 puzzle0, loaded, lastSaved, prevCk>>
  /\ UNCHANGED aux

NextCorrupt == Next \/ Corrupt

InitCorrupt == Init /\ puzzle0.a = MaxBase /\ puzzle0.cipher_key = 0

SpecCorrupt == InitCorrupt /\ [][NextCorrupt]_vars

(* ---------------- the puzzle builder ---------------- *)
\* step counts handed to makepuzzle
MaxDifficulty == 7

\* makepuzzle(t), with its random draws p, q, key and a as parameters
makepuzzle(p, q, k, a, tt) ==
  LET N == p * q
      totient == (p - 1) * (q - 1)
      e == pow(2, tt, totient)
      b == pow(a, e, N)
      cipher_key == (k + b) % N
  IN  [N |-> N, a |-> a, steps |-> tt, cipher_key |-> cipher_key]

\* the while loop of solve_puzzle, run to its end
RECURSIVE SolveLoop(_, _, _, _)
SolveLoop(v, ii, tt, N) ==
  IF ii < tt THEN SolveLoop(SquareStep(v, N), ii + 1, tt, N) ELSE v

InitBuild ==
  /\ pc = "new"
  /\ puzzle0 = NoPuzzle
  /\ file = EmptyFile
  /\ lastSaved = NoPuzzle
  /\ puzzle = NoPuzzle /\ loaded = NoPuzzle /\ p2 = NoPuzzle
  /\ tmp = 0 /\ i = 0 /\ t = 0
  /\ SAVE_INTERVAL = -1
  /\ key = -1
  /\ prevCk = -1
  /\ trapdoor = NoTrapdoor
  /\ SPEED = -1
  /\ elapsed = 0
  /\ etaIn = <<0, 0, <<1, 1>>>>
  /\ etaOut = <<NoEta, NoEta>>

\* _encrypt_file_time0: makepuzzle, then save_puzzle of the new record
MakePuzzle ==
  /\ pc = "new"
  /\ \E p \in getPrime(PrimeBits), q \in getPrime(PrimeBits),
        k \in 0..MaxKey, tt \in 0..MaxDifficulty :
       \E a \in Bases(p * q) :
         /\ trapdoor' = [p |-> p, q |-> q, totient |-> (p - 1) * (q - 1), key |-> k]
         /\ puzzle' = makepuzzle(p, q, k, a, tt)
         /\ puzzle0' = makepuzzle(p, q, k, a, tt)
         /\ file' = FullFile(makepuzzle(p, q, k, a, tt))
  /\ pc' = "built"
  /\ UNCHANGED <<tmp, i, t, SAVE_INTERVAL, p2, key, loaded, lastSaved, prevCk,
                 SPEED, elapsed, etaIn, etaOut>>

\* solve_puzzle on the saved record, run without interruption to the key
SolvePuzzle ==
  /\ pc = "built"
  /\ Parses(file)
  /\ loaded' = EvalFile(file)
  /\ t' = EvalFile(file).steps
  /\ i' = EvalFile(file).steps
  /\ tmp' = SolveLoop(EvalFile(file).a, 0, EvalFile(file).steps, EvalFile(file).N)
  /\ key' = RecoverKey(EvalFile(file).cipher_key, tmp', EvalFile(file).N)
  /\ pc' = "recovered"
  /\ UNCHANGED <<file, puzzle, SAVE_INTERVAL, p2, puzzle0, lastSaved, prevCk>>
  /\ UNCHANGED aux

NextBuild == MakePuzzle \/ SolvePuzzle

SpecBuild == InitBuild /\ [][NextBuild]_vars

(* ---------------- calibration ---------------- *)
\* clock ticks per second, and the longest elapsed time in ticks
TicksPerSecond == 10
MaxElapsed == 1200
\* trials = 100
Trials == 100

\* int(trials/(time.time() - start)), elapsed time e in ticks, e > 0
calibrate_speed(e) == (Trials * TicksPerSecond) \div e

InitCal ==
  /\ pc = "start"
  /\ puzzle0 \in {r \in ValidPuzzles : r.a = 0 /\ r.cipher_key = 0}
  /\ puzzle = puzzle0
  /\ file = FullFile(puzzle0)
  /\ lastSaved = puzzle0
  /\ loaded = NoPuzzle /\ p2 = NoPuzzle
  /\ tmp = 0 /\ i = 0 /\ t = 0
  /\ SAVE_INTERVAL = -1
  /\ key = -1
  /\ prevCk = -1
  /\ trapdoor = NoTrapdoor
  /\ SPEED = -1
  /\ elapsed = 0
  /\ etaIn = <<0, 0, <<1, 1>>>>
  /\ etaOut = <<NoEta, NoEta>>

\* update_speed, the first call of a process: calibrate_speed and the interval
update_speed ==
  /\ pc = "start"
  /\ SPEED < 0
  /\ \E e \in 0..MaxElapsed :
       /\ elapsed' = e
       /\ IF e = 0
            THEN /\ pc' = "zero_div"
                 /\ UNCHANGED <<SPEED, SAVE_INTERVAL>>
            ELSE /\ SPEED' = calibrate_speed(e)
                 /\ SAVE_INTERVAL' = calibrate_speed(e) * 10 * MINUTE
                 /\ pc' = "calibrated"
  /\ UNCHANGED <<puzzle, key, trapdoor, etaIn, etaOut>>
  /\ UNCHANGED solver

\* putestimation: eta(puzzle['steps'], SPEED) divides remaining by SPEED
putestimation ==
  /\ pc = "calibrated"
  /\ pc' = IF SPEED = 0 THEN "zero_div" ELSE "estimated"
  /\ UNCHANGED <<puzzle, key, SAVE_INTERVAL>>
  /\ UNCHANGED solver
  /\ UNCHANGED aux

\* solve_puzzle, first pass of the loop: (i+1) % SAVE_INTERVAL
LoopModulo ==
  /\ pc \in {"calibrated", "estimated"}
  /\ puzzle.steps > 0
  /\ pc' = IF SAVE_INTERVAL = 0 THEN "zero_div" ELSE "looping"
  /\ UNCHANGED <<puzzle, key, SAVE_INTERVAL>>
  /\ UNCHANGED solver
  /\ UNCHANGED aux

NextCal == update_speed \/ putestimation \/ LoopModulo

SpecCal == InitCal /\ [][NextCal]_vars

(* ---------------- eta ---------------- *)
\* speeds are the rationals num/den with num in 1..MaxSpeedNum, den in 1..MaxSpeedDen
MaxSpeedNum == 2
MaxSpeedDen == 2
\* remaining counts are taken this close to each unit threshold
MaxOffset == 1

\* '%d' % x for a non-negative rational x = <<numerator, denominator>>
Trunc(x) == x[1] \div x[2]
\* x % unit in place of x / unit
PerModulo(x, unit) == <<(x[1] \div x[2]) % unit, 1>>

\* x / unit
Per(x, unit) == <<x[1], x[2] * unit>>
\* x < bound
Below(x, bound) == x[1] < bound * x[2]

\* eta(remaining, speed), speed = <<num, den>>; the result is the printed
\* number and the printed unit
eta(remaining, speed) ==
  LET seconds == <<remaining * speed[2], speed[1]>>
  IN  IF Below(seconds, 100 * SECOND)
        THEN [n |-> Trunc(seconds), unit |-> "seconds"]
      ELSE IF Below(seconds, 100 * MINUTE)
        THEN [n |-> Trunc(Per(seconds, MINUTE)), unit |-> "minutes"]
      ELSE IF Below(seconds, 100 * HOUR)
        THEN [n |-> Trunc(Per(seconds, HOUR)), unit |-> "hours"]
      ELSE IF Below(seconds, 60 * DAY)
        THEN [n |-> Trunc(Per(seconds, DAY)), unit |-> "days"]
      ELSE IF Below(seconds, 20 * MONTH)
        THEN [n |-> Trunc(Per(seconds, MONTH)), unit |-> "months"]
      ELSE [n |-> Trunc(Per(seconds, YEAR)), unit |-> "years"]

EtaMarks ==
  {0, 2 * MINUTE, 100 * SECOND, 100 * MINUTE, 100 * HOUR, 60 * DAY, 20 * MONTH}
EtaSpeeds == {<<n, d>> : n \in 1..MaxSpeedNum, d \in 1..MaxSpeedDen}
EtaRemaining ==
  {r \in {(m * sp[1]) \div sp[2] + off :
            m \in EtaMarks, sp \in EtaSpeeds, off \in (-MaxOffset)..MaxOffset} :
     r >= 0}

InitEta ==
  /\ pc = "eta_args"
  /\ etaIn \in {x \in EtaRemaining \X EtaRemaining \X EtaSpeeds : x[1] <= x[2]}
  /\ etaOut = <<NoEta, NoEta>>
  /\ puzzle0 = NoPuzzle
  /\ file = EmptyFile
  /\ lastSaved = NoPuzzle
  /\ puzzle = NoPuzzle /\ loaded = NoPuzzle /\ p2 = NoPuzzle
  /\ tmp = 0 /\ i = 0 /\ t = 0
  /\ SAVE_INTERVAL = -1
  /\ key = -1
  /\ prevCk = -1
  /\ trapdoor = NoTrapdoor
  /\ SPEED = -1
  /\ elapsed = 0

\* eta on the smaller and on the larger remaining count, at the same speed
EtaCalls ==
  /\ pc = "eta_args"
  /\ etaOut' = <<eta(etaIn[1], etaIn[3]), eta(etaIn[2], etaIn[3])>>
  /\ pc' = "eta"
  /\ UNCHANGED <<puzzle, key, SAVE_INTERVAL, trapdoor, SPEED, elapsed, etaIn>>
  /\ UNCHANGED solver

NextEta == EtaCalls

SpecEta == InitEta /\ [][NextEta]_vars

\* the duration a result reports, in seconds, and the rank of its unit
UnitSeconds(u) ==
  CASE u = "seconds" -> SECOND [] u = "minutes" -> MINUTE [] u = "hours" -> HOUR
    [] u = "days" -> DAY [] u = "months" -> MONTH [] u = "years" -> YEAR
UnitRank(u) ==
  CASE u = "seconds" -> 1 [] u = "minutes" -> 2 [] u = "hours" -> 3
    [] u = "days" -> 4 [] u = "months" -> 5 [] u = "years" -> 6
Duration(o) == o.n * UnitSeconds(o.unit)

(* ======================= properties ======================= *)
Target(r) == RepeatedSquare(r.a, r.steps, r.N)

\* C1: when the loop of solve_puzzle has ended, tmp is the a of the record
\* being solved squared modulo N exactly steps times by direct iteration, and
\* the key is cipher_key minus that value modulo N, whatever checkpoints the
\* run wrote on the way.
C1_SolverValue ==
  pc = "done" =>
    /\ tmp = Target(loaded)
    /\ key = (loaded.cipher_key - Target(loaded)) % loaded.N

\* a run that wrote a checkpoint and then finished
C1_Witness ==
  /\ pc = "done"
  /\ prevCk # -1
  /\ loaded.steps >= 2
  /\ loaded.a > 1

\* C2: every complete record in the checkpoint file has the N and cipher_key
\* of the original puzzle and squares to the same final value, and every run
\* that ends, from the original record or from a checkpoint read back after
\* any interruptions, ends with the final value of the original puzzle.
C2_ResumePreserves ==
  /\ Parses(file) =>
       /\ EvalFile(file).N = puzzle0.N
       /\ EvalFile(file).cipher_key = puzzle0.cipher_key
       /\ Target(EvalFile(file)) = Target(puzzle0)
  /\ pc = "done" =>
       /\ tmp = Target(puzzle0)
       /\ key = (puzzle0.cipher_key - Target(puzzle0)) % puzzle0.N

\* a run resumed from a checkpoint of an earlier run has finished
C2_Witness ==
  /\ pc = "done"
  /\ loaded # puzzle0
  /\ loaded.steps > 0
  /\ loaded.steps < puzzle0.steps
  /\ puzzle0.a > 1

\* C10: a checkpoint being saved has at most the steps of the record being
\* solved and fewer than the previous checkpoint of the run, a value in
\* [0, N), and the N and cipher_key of the record being solved; the record
\* being solved is the one that was loaded, unchanged.
C10_CheckpointWellFormed ==
  /\ pc \in {"open", "write", "close"} =>
       /\ p2.steps <= loaded.steps
       /\ prevCk # -1 => p2.steps < prevCk
       /\ p2.a \in 0..(loaded.N - 1)
       /\ p2.N = loaded.N
       /\ p2.cipher_key = loaded.cipher_key
  /\ (Running \/ pc = "done") => puzzle = loaded

\* the second checkpoint of a run is about to be closed
C10_Witness ==
  /\ pc = "close"
  /\ prevCk # -1
  /\ p2.a > 1

\* C4 (as claimed): whenever the process has been interrupted, the file a
\* resume would read is complete and holds the last completed save.
C4_AtomicReplace ==
  pc = "crashed" => Parses(file) /\ EvalFile(file) = lastSaved

\* C5 (as claimed): a failed checkpoint write never ends the solver.
C5_WriteFailureContinues == pc # "io_error"

\* C9 (as claimed): a run ends only after exactly steps squarings, and every
\* run that starts ends completed unless it is interrupted.
C9_RunCompletes ==
  /\ [](pc = "done" => i = loaded.steps)
  /\ ((pc = "loop") ~> (pc \in {"done", "crashed"}))

\* C6 (as claimed): a solver never runs on, nor derives a key from, a record
\* whose steps exceed the original step count or whose value is outside [0, N).
C6_CorruptRejected ==
  (Running \/ pc = "done") =>
    /\ loaded.steps <= puzzle0.steps
    /\ loaded.a \in 0..(loaded.N - 1)

\* C3 (as claimed): the key recovered after solving the built puzzle is the
\* key given to the builder.
C3_RoundTrip == pc = "recovered" => key = trapdoor.key

\* C8 (as claimed): once update_speed has run, SPEED > 0 and SAVE_INTERVAL >= 1
\* and no division or modulo by zero has happened.
C8_PositiveSpeed ==
  pc # "start" => SPEED > 0 /\ SAVE_INTERVAL >= 1 /\ pc # "zero_div"

\* C7 (as claimed): for r1 <= r2 at the same speed, the duration eta reports
\* for r1 (number times unit) is at most the one it reports for r2.
C7_DurationMonotone ==
  pc = "eta" => Duration(etaOut[1]) <= Duration(etaOut[2])

\* C7 (amended): for r1 <= r2 at the same speed, the unit eta prints for r1 is
\* not coarser than the unit it prints for r2, and when the units are the same
\* the number printed for r1 is at most the number printed for r2.
C7_UnitThenNumberMonotone ==
  pc = "eta" =>
    /\ UnitRank(etaOut[1].unit) <= UnitRank(etaOut[2].unit)
    /\ etaOut[1].unit = etaOut[2].unit => etaOut[1].n <= etaOut[2].n

\* two results on either side of a unit promotion
C7_Witness ==
  /\ pc = "eta"
  /\ etaIn[1] < etaIn[2]
  /\ etaOut[1].unit = "months"
  /\ etaOut[2].unit = "years"

====
